---- MODULE Spec2Model ----
(***************************************************************************)
(* Proof-of-work difficulty rules of src/src/pow.cpp:                      *)
(*   GetNextWorkRequired, CalculateNextWorkRequired, CheckProofOfWork.     *)
(*                                                                         *)
(* A 256-bit value (uint256 / arith_uint256) is a sequence of WIDTH bytes, *)
(* least significant byte first.  A compact value (nBits) is a natural     *)
(* number below 2^31; block times, heights and timespans are integers.     *)
(***************************************************************************)
EXTENDS Integers, Sequences, FiniteSets

(* ---------------------------------------------------------------------- *)
(* Bounds of the exploration                                               *)
(* ---------------------------------------------------------------------- *)
\* number of block-index nodes of the initial chain
ChainLen == 78
\* number of blocks ConnectBlock may append to the initial chain
MaxConnect == 1

(* ---------------------------------------------------------------------- *)
(* arith_uint256: 256-bit unsigned arithmetic                              *)
(* ---------------------------------------------------------------------- *)
\* bytes of an arith_uint256 (256 bits)
WIDTH == 32

Idx == 1..WIDTH

SetMax(S) == CHOOSE x \in S : \A y \in S : y <= x

Pow256(j) == IF j = 0 THEN 1 ELSE IF j = 1 THEN 256 ELSE IF j = 2 THEN 65536 ELSE 16777216

\* byte j (0..3) of a natural below 2^31
ByteOf(n, j) == (n \div Pow256(j)) % 256

Zero256 == [i \in Idx |-> 0]

\* arith_uint256(uint64_t b), for b below 2^31
FromU32(n) == [i \in Idx |-> IF i <= 4 THEN ByteOf(n, i - 1) ELSE 0]

\* operator<<= by whole bytes: bytes shifted past the top are lost
ShiftLeftBytes(a, s) == [i \in Idx |-> IF i - s >= 1 THEN a[i - s] ELSE 0]

\* operator>>= by whole bytes
ShiftRightBytes(a, s) == [i \in Idx |-> IF i + s <= WIDTH THEN a[i + s] ELSE 0]

\* CompareTo(a, b) > 0
Gt256(a, b) ==
    LET d == {i \in Idx : a[i] # b[i]}
    IN  d # {} /\ a[SetMax(d)] > b[SetMax(d)]

\* (bits() + 7) / 8: number of significant bytes
NumBytes(a) ==
    LET nz == {i \in Idx : a[i] # 0}
    IN  IF nz = {} THEN 0 ELSE SetMax(nz)

\* the low three bytes as a number
Low24(a) == a[1] + 256 * a[2] + 65536 * a[3]

\* one pass of operator*=(uint32_t b32) over the bytes i..last, from the low
\* end: st is <<carry, bytes so far>>
RECURSIVE MulBytes(_, _, _, _, _)
MulBytes(a, m, i, last, st) ==
    IF i > last THEN st
    ELSE CHOOSE r \in
           { MulBytes(a, m, i + 1, last, nx) :
               nx \in { <<(a[i] * m + st[1]) \div 256,
                          Append(st[2], (a[i] * m + st[1]) % 256)>> } } : TRUE

\* operator*=(uint32_t b32): the carry out of the top byte is dropped, the
\* product is kept modulo 2^256.  The bytes are done in four runs.
MulU32(a, m) ==
    CHOOSE r \in
      { s4[2] :
        s4 \in { MulBytes(a, m, 3 * (WIDTH \div 4) + 1, WIDTH, s3) :
        s3 \in { MulBytes(a, m, 2 * (WIDTH \div 4) + 1, 3 * (WIDTH \div 4), s2) :
        s2 \in { MulBytes(a, m, (WIDTH \div 4) + 1, 2 * (WIDTH \div 4), s1) :
        s1 \in { MulBytes(a, m, 1, WIDTH \div 4, <<0, <<>>>>) } } } } } : TRUE

\* one pass of operator/= over the bytes i..last, from the high end: st is
\* <<remainder, quotient so far>>
RECURSIVE DivBytes(_, _, _, _, _)
DivBytes(a, d, i, last, st) ==
    IF i < last THEN st
    ELSE CHOOSE r \in
           { DivBytes(a, d, i - 1, last, nx) :
               nx \in { <<(st[1] * 256 + a[i]) % d,
                          [st[2] EXCEPT ![i] = (st[1] * 256 + a[i]) \div d]>> } } : TRUE

\* operator/= by a positive divisor below 2^23, truncating
DivU32(a, d) ==
    CHOOSE r \in
      { s4[2] :
        s4 \in { DivBytes(a, d, WIDTH \div 4, 1, s3) :
        s3 \in { DivBytes(a, d, 2 * (WIDTH \div 4), (WIDTH \div 4) + 1, s2) :
        s2 \in { DivBytes(a, d, 3 * (WIDTH \div 4), 2 * (WIDTH \div 4) + 1, s1) :
        s1 \in { DivBytes(a, d, WIDTH, 3 * (WIDTH \div 4) + 1, <<0, Zero256>>) } } } } } : TRUE

\* arith_uint256::SetCompact
SetCompact(nCompact) ==
    LET nSize == nCompact \div 16777216
        word0 == nCompact % 8388608
        nWord == IF nSize <= 3 THEN word0 \div Pow256(3 - nSize) ELSE word0
        value == IF nSize <= 3 THEN FromU32(nWord)
                 ELSE ShiftLeftBytes(FromU32(nWord), nSize - 3)
    IN  [value     |-> value,
         fNegative |-> nWord # 0 /\ (nCompact \div 8388608) % 2 = 1,
         fOverflow |-> nWord # 0 /\ (nSize > 34 \/ (nWord > 255 /\ nSize > 33)
                                      \/ (nWord > 65535 /\ nSize > 32))]

\* arith_uint256::GetCompact(false)
GetCompact(a) ==
    LET nSize == NumBytes(a)
        c0    == IF nSize <= 3 THEN Low24(a) * Pow256(3 - nSize)
                 ELSE Low24(ShiftRightBytes(a, nSize - 3))
        sign  == (c0 \div 8388608) % 2 = 1
        c1    == IF sign THEN c0 \div 256 ELSE c0
        size1 == IF sign THEN nSize + 1 ELSE nSize
    IN  size1 * 16777216 + c1

(* ---------------------------------------------------------------------- *)
(* Consensus::Params                                                       *)
(* ---------------------------------------------------------------------- *)
\* Params::DifficultyAdjustmentInterval()
DifficultyAdjustmentInterval(p) == p.nPowTargetTimespan \div p.nPowTargetSpacing

\* a value whose low n bytes are 0xff
LowOnes(n) == [i \in Idx |-> IF i <= n THEN 255 ELSE 0]

\* 2^255 - 1
Limit255 == [i \in Idx |-> IF i = WIDTH THEN 127 ELSE 255]

MkParams(lim, begin, spacing, timespan, allowMin, noRetarget, bcd) ==
    [powLimit |-> lim, BCDBeginPowLimit |-> begin,
     nPowTargetSpacing |-> spacing, nPowTargetTimespan |-> timespan,
     fPowAllowMinDifficultyBlocks |-> allowMin,
     fPowNoRetargeting |-> noRetarget, BCDHeight |-> bcd]

ParamSet ==
    { MkParams(LowOnes(28), LowOnes(27), 600, 2400, FALSE, FALSE, 4),
      MkParams(LowOnes(28), LowOnes(27), 600, 2400, TRUE, FALSE, 4),
      MkParams(LowOnes(28), LowOnes(27), 600, 2400, TRUE, FALSE, 6),
      MkParams(LowOnes(28), LowOnes(27), 600, 1209600, TRUE, FALSE, 4),
      MkParams(LowOnes(28), LowOnes(27), 600, 1209600, FALSE, FALSE, 6),
      MkParams(Limit255, LowOnes(28), 600, 2400, FALSE, FALSE, 6),
      MkParams(Limit255, LowOnes(28), 600, 2400, TRUE, TRUE, 4),
      MkParams(LowOnes(28), LowOnes(27), 600, 2400, FALSE, TRUE, 6),
      MkParams(LowOnes(28), LowOnes(27), 600, 2400, TRUE, FALSE, 0),
      MkParams(LowOnes(28), LowOnes(27), 600, 600, FALSE, FALSE, 6) }

(* ---------------------------------------------------------------------- *)
(* CBlockIndex chain                                                       *)
(* ---------------------------------------------------------------------- *)
\* chain[i] is the node of height i - 1; its pprev is chain[i - 1];
\* index 0 stands for nullptr
GenesisTime == 1000000

MkNode(h, t, b) == [nHeight |-> h, nTime |-> t, nBits |-> b]

\* CBlockIndex::GetAncestor: index of the ancestor at a height, 0 if none
GetAncestor(ch, i, height) ==
    IF height > ch[i].nHeight \/ height < 0 THEN 0 ELSE height + 1

\* the outcome of a call that returns compact bits; ok is FALSE when an
\* assert aborts the call.  branch, nHeightFirst and nFirstBlockTime record
\* the return statement taken and the locals of the retarget path.
Returned(br, b) ==
    [ok |-> TRUE, bits |-> b, branch |-> br, nHeightFirst |-> 0, nFirstBlockTime |-> 0]

Aborted(br) ==
    [ok |-> FALSE, bits |-> 0, branch |-> br, nHeightFirst |-> 0, nFirstBlockTime |-> 0]

(* ---------------------------------------------------------------------- *)
(* CalculateNextWorkRequired                                               *)
(* ---------------------------------------------------------------------- *)
\* powTargetTimespan of the calculator's era
CalcTimespan(nHeight, p) ==
    IF nHeight + 1 > p.BCDHeight THEN 72 * p.nPowTargetSpacing
    ELSE p.nPowTargetTimespan

\* limit of the calculator's era
CalcLimit(nHeight, p) ==
    IF nHeight + 1 > p.BCDHeight THEN 2 ELSE 4

\* the clamped nActualTimespan
LimitAdjustmentStep(nActualTimespan, powTargetTimespan, limit) ==
    LET lo == powTargetTimespan \div limit
        hi == powTargetTimespan * limit
        a1 == IF nActualTimespan < lo THEN lo ELSE nActualTimespan
    IN  IF a1 > hi THEN hi ELSE a1

\* variant of Retarget that leaves out the comparison with bnPowLimit
Retarget_NoCeiling(nBits, nActualTimespan, powTargetTimespan, p) ==
    DivU32(MulU32(SetCompact(nBits).value, nActualTimespan), powTargetTimespan)

\* bnNew after SetCompact, *=, /= and the comparison with bnPowLimit
Retarget(nBits, nActualTimespan, powTargetTimespan, p) ==
    LET bnNew == DivU32(MulU32(SetCompact(nBits).value, nActualTimespan),
                        powTargetTimespan)
    IN  IF Gt256(bnNew, p.powLimit) THEN p.powLimit ELSE bnNew

\* variant of CalculateNextWorkRequired that does not test fPowNoRetargeting
CalculateNextWorkRequired_AlwaysRetarget(pindexLast, nFirstBlockTime, p) ==
    LET powTargetTimespan == CalcTimespan(pindexLast.nHeight, p)
        limit == CalcLimit(pindexLast.nHeight, p)
        nActualTimespan ==
            LimitAdjustmentStep(pindexLast.nTime - nFirstBlockTime, powTargetTimespan, limit)
    IN  GetCompact(Retarget(pindexLast.nBits, nActualTimespan, powTargetTimespan, p))

CalculateNextWorkRequired(pindexLast, nFirstBlockTime, p) ==
    IF p.fPowNoRetargeting THEN pindexLast.nBits
    ELSE LET powTargetTimespan == CalcTimespan(pindexLast.nHeight, p)
             limit == CalcLimit(pindexLast.nHeight, p)
             nActualTimespan ==
                 LimitAdjustmentStep(pindexLast.nTime - nFirstBlockTime,
                                     powTargetTimespan, limit)
         IN  GetCompact(Retarget(pindexLast.nBits, nActualTimespan, powTargetTimespan, p))

(* ---------------------------------------------------------------------- *)
(* GetNextWorkRequired                                                     *)
(* ---------------------------------------------------------------------- *)
\* UintToArith256(params.powLimit).GetCompact()
nProofOfWorkLimit(p) == GetCompact(p.powLimit)

\* variant of SchedHeight that counts the fork era's height from 0
SchedHeight_Absolute(nHeight, p) == nHeight + 1

\* height of the scheduler's era
SchedHeight(nHeight, p) ==
    IF nHeight + 1 > p.BCDHeight THEN nHeight + 1 - p.BCDHeight
    ELSE nHeight + 1

\* interval of the scheduler's era
SchedInterval(nHeight, p) ==
    IF nHeight + 1 > p.BCDHeight THEN 72
    ELSE DifficultyAdjustmentInterval(p)

\* variant of MinDifficultyGap with an inclusive comparison
MinDifficultyGap_Inclusive(blockTime, lastTime, p) ==
    blockTime >= lastTime + p.nPowTargetSpacing * 2

\* the gap test of the special difficulty rule
MinDifficultyGap(blockTime, lastTime, p) ==
    blockTime > lastTime + p.nPowTargetSpacing * 2

\* the condition of the loop that looks for the last
\* non-special-min-difficulty-rules block, at the node of index j
WalkOn(ch, j, p) ==
    /\ j > 1
    /\ ch[j].nHeight % DifficultyAdjustmentInterval(p) # 0
    /\ ch[j].nBits = nProofOfWorkLimit(p)

\* the index of the node the loop stops at: the first one, going back from
\* i through pprev, at which the loop condition is false
LastNonMinDifficulty(ch, i, p) ==
    SetMax({j \in 1..i : ~WalkOn(ch, j, p)})

\* variant of RetargetPath that goes back a whole interval
RetargetPath_WholeInterval(ch, i, interval, p) ==
    LET nHeightFirst == ch[i].nHeight - interval
        first        == GetAncestor(ch, i, nHeightFirst)
    IN  IF nHeightFirst < 0 \/ first = 0
        THEN [Aborted("assert") EXCEPT !.nHeightFirst = nHeightFirst]
        ELSE [ok |-> TRUE,
              bits |-> CalculateNextWorkRequired(ch[i], ch[first].nTime, p),
              branch |-> "retarget",
              nHeightFirst |-> nHeightFirst,
              nFirstBlockTime |-> ch[first].nTime]

\* the retarget path: nHeightFirst, the two asserts and the calculator
RetargetPath(ch, i, interval, p) ==
    LET nHeightFirst == ch[i].nHeight - (interval - 1)
        first        == GetAncestor(ch, i, nHeightFirst)
    IN  IF nHeightFirst < 0 \/ first = 0
        THEN [Aborted("assert") EXCEPT !.nHeightFirst = nHeightFirst]
        ELSE [ok |-> TRUE,
              bits |-> CalculateNextWorkRequired(ch[i], ch[first].nTime, p),
              branch |-> "retarget",
              nHeightFirst |-> nHeightFirst,
              nFirstBlockTime |-> ch[first].nTime]

\* the first statement: assert(pindexLast != nullptr)
AssertLast(i) == i # 0

\* pindexLast->nHeight+1 == params.BCDHeight
AtForkHeight(nHeight, p) == nHeight + 1 = p.BCDHeight

\* variant of AtForkBegin that is one block late
AtForkBegin_Late(nHeight, p) == nHeight + 1 = p.BCDHeight + 2

\* pindexLast->nHeight+1 == params.BCDHeight+1
AtForkBegin(nHeight, p) == nHeight + 1 = p.BCDHeight + 1

\* ch is the chain, i the index of pindexLast (0 for nullptr), blockTime
\* is pblock->GetBlockTime()
GetNextWorkRequired(ch, i, blockTime, p) ==
    IF ~AssertLast(i) THEN Aborted("assert")
    ELSE IF i = 0 THEN Returned("genesis", nProofOfWorkLimit(p))
    ELSE IF AtForkHeight(ch[i].nHeight, p)
         THEN Returned("fork", nProofOfWorkLimit(p))
    ELSE IF AtForkBegin(ch[i].nHeight, p)
         THEN Returned("forkbegin", GetCompact(p.BCDBeginPowLimit))
    ELSE LET height   == SchedHeight(ch[i].nHeight, p)
             interval == SchedInterval(ch[i].nHeight, p)
         IN  IF height % interval # 0
             THEN IF p.fPowAllowMinDifficultyBlocks
                  THEN IF MinDifficultyGap(blockTime, ch[i].nTime, p)
                       THEN Returned("mindiff", nProofOfWorkLimit(p))
                       ELSE Returned("walk", ch[LastNonMinDifficulty(ch, i, p)].nBits)
                  ELSE Returned("reuse", ch[i].nBits)
             ELSE RetargetPath(ch, i, interval, p)

(* ---------------------------------------------------------------------- *)
(* CheckProofOfWork                                                        *)
(* ---------------------------------------------------------------------- *)
\* variant of CheckProofOfWork that rejects a hash equal to the target
CheckProofOfWork_RejectEqual(hash, nBits, p) ==
    LET t == SetCompact(nBits)
    IN  IF t.fNegative \/ t.value = Zero256 \/ t.fOverflow \/ Gt256(t.value, p.powLimit)
        THEN FALSE
        ELSE IF Gt256(hash, t.value) \/ hash = t.value THEN FALSE
        ELSE TRUE

CheckProofOfWork(hash, nBits, p) ==
    LET t == SetCompact(nBits)
    IN  IF t.fNegative \/ t.value = Zero256 \/ t.fOverflow \/ Gt256(t.value, p.powLimit)
        THEN FALSE
        ELSE IF Gt256(hash, t.value) THEN FALSE
        ELSE TRUE

(* ---------------------------------------------------------------------- *)
(* State machine                                                           *)
(* ---------------------------------------------------------------------- *)
VARIABLES params, chain, call
vars == <<params, chain, call>>

\* the compact value with exponent byte size and low 24 bits word
Compact(size, word) == size * 16777216 + word

\* a mainnet-style difficulty, 0x1b0404cb
RealBits == Compact(27, 263371)
\* the compact encoding of the target 1, 0x01010000
OneBits == Compact(1, 65536)

\* the block index of the model: ChainLen nodes of consecutive heights from
\* 0, dt seconds apart, with bits base except for the heights lo..hi, which
\* carry the proof-of-work limit (a run of min-difficulty blocks)
ChainOf(p, d) ==
    [i \in 1..ChainLen |->
        MkNode(i - 1, GenesisTime + (i - 1) * d.dt,
               IF d.lo <= i - 1 /\ i - 1 <= d.hi THEN nProofOfWorkLimit(p) ELSE d.base)]

ChainShapes(p) ==
    { [base |-> RealBits, dt |-> 600, lo |-> 1, hi |-> 0],
      [base |-> RealBits, dt |-> 100, lo |-> 5, hi |-> 8],
      [base |-> RealBits, dt |-> 3000, lo |-> 74, hi |-> 78],
      [base |-> RealBits, dt |-> 600, lo |-> 1, hi |-> 3],
      [base |-> OneBits, dt |-> 100, lo |-> 1, hi |-> 0],
      [base |-> nProofOfWorkLimit(p), dt |-> 3000, lo |-> 1, hi |-> 0] }

NoCall == [op |-> "none"]

Init ==
    /\ params \in ParamSet
    /\ \E d \in ChainShapes(params) : chain = ChainOf(params, d)
    /\ call = NoCall

\* block times offered with a previous node: inside, at and past the
\* 2 * nPowTargetSpacing gap
BlockTimes(lastTime, p) ==
    { lastTime + 1, lastTime + 2 * p.nPowTargetSpacing, lastTime + 2 * p.nPowTargetSpacing + 1 }

\* a caller asks for the work required after node i (0: no previous node)
CallGetNextWorkRequired ==
    /\ call = NoCall
    /\ \E i \in 0..Len(chain) :
         \E t \in (IF i = 0 THEN {GenesisTime} ELSE BlockTimes(chain[i].nTime, params)) :
            call' = [op |-> "gnwr", last |-> i, time |-> t,
                     res |-> GetNextWorkRequired(chain, i, t, params)]
    /\ UNCHANGED <<params, chain>>

\* a block is appended to the tip with the bits the scheduler returns
ConnectBlock ==
    /\ call = NoCall
    /\ Len(chain) < ChainLen + MaxConnect
    /\ \E t \in BlockTimes(chain[Len(chain)].nTime, params) :
         LET r == GetNextWorkRequired(chain, Len(chain), t, params)
         IN  /\ r.ok
             /\ chain' = Append(chain, MkNode(Len(chain), t, r.bits))
    /\ UNCHANGED <<params, call>>

\* compact values offered to the calculator: the limit, a mainnet-style
\* value, the target 1, a non-canonical encoding (0x1e0000ff) and a value
\* above the mainnet limit (0x1e00ffff)
CalcBits(p) ==
    { nProofOfWorkLimit(p), RealBits, OneBits, Compact(30, 255), Compact(30, 65535) }

\* timespans offered to the calculator, around the clamp bounds of both eras
Spans(p) ==
    LET Around(e, f) == { -100, 0, e \div f - 1, e \div f, e \div 2, e,
                          e * f, e * f + 1, 100 * e }
    IN  Around(p.nPowTargetTimespan, 4) \cup Around(72 * p.nPowTargetSpacing, 2)

\* a caller invokes the calculator on a node of either era
CallCalculateNextWorkRequired ==
    /\ call = NoCall
    /\ \E h \in {n \in {params.BCDHeight - 1, params.BCDHeight} : n >= 0} :
         \E b \in CalcBits(params) : \E span \in Spans(params) :
            LET node == MkNode(h, GenesisTime + span, b)
            IN  call' = [op |-> "cnwr", node |-> node, first |-> GenesisTime,
                         res |-> CalculateNextWorkRequired(node, GenesisTime, params)]
    /\ UNCHANGED <<params, chain>>

\* a + 1 modulo 2^256
Inc256(a) ==
    [i \in Idx |-> IF \A j \in 1..(i - 1) : a[j] = 255
                   THEN (a[i] + 1) % 256 ELSE a[i]]

\* compact values offered to the verifier: valid ones, zero, negative
\* (0x1c800001, 0x04923456), overflowing (0x23000100, 0x2200ffff), above
\* the mainnet limit (0x1e00ffff), and a size-1 value with an empty word
CheckBits(p) ==
    { nProofOfWorkLimit(p), RealBits, OneBits, Compact(0, 0),
      Compact(28, 8388609), Compact(4, 9581654), Compact(35, 256),
      Compact(34, 65535), Compact(30, 65535), Compact(1, 8388608) }

\* hashes offered with a target: the target, its successor, zero, the limit
\* and the largest 256-bit value
Hashes(t, p) == { t, Inc256(t), Zero256, p.powLimit, LowOnes(WIDTH) }

\* block validation checks a hash against claimed bits
CallCheckProofOfWork ==
    /\ call = NoCall
    /\ \E b \in CheckBits(params) : \E h \in Hashes(SetCompact(b).value, params) :
            call' = [op |-> "cpow", hash |-> h, bits |-> b,
                     res |-> CheckProofOfWork(h, b, params)]
    /\ UNCHANGED <<params, chain>>

\* the caller takes the result; the functions keep no state
Return ==
    /\ call # NoCall
    /\ call' = NoCall
    /\ UNCHANGED <<params, chain>>

Next ==
    \/ CallGetNextWorkRequired
    \/ ConnectBlock
    \/ CallCalculateNextWorkRequired
    \/ CallCheckProofOfWork
    \/ Return

Spec == Init /\ [][Next]_vars

(* ---------------------------------------------------------------------- *)
(* Vocabulary of the properties                                            *)
(* ---------------------------------------------------------------------- *)
\* a call of get_next_work_required with a previous node
IsGnwr == call.op = "gnwr" /\ call.last # 0

Last == chain[call.last]

CandidateHeight == Last.nHeight + 1

PostFork == CandidateHeight > params.BCDHeight

EraHeight == IF PostFork THEN CandidateHeight - params.BCDHeight ELSE CandidateHeight

EraInterval ==
    IF PostFork THEN 72 ELSE params.nPowTargetTimespan \div params.nPowTargetSpacing

OffFork == CandidateHeight \notin {params.BCDHeight, params.BCDHeight + 1}

NonBoundary == OffFork /\ EraHeight % EraInterval # 0

Boundary == OffFork /\ EraHeight % EraInterval = 0

\* encode(pow_limit) and encode(fork_initial_ceiling)
EncLimit == GetCompact(params.powLimit)

EncCeiling == GetCompact(params.BCDBeginPowLimit)

Leq256(a, b) == ~Gt256(a, b)

\* bits decode to a target that is not negative, not overflowing, non-zero
\* and at most pow_limit
ValidTarget(b, p) ==
    LET t == SetCompact(b)
    IN  /\ ~t.fNegative
        /\ ~t.fOverflow
        /\ t.value # Zero256
        /\ Leq256(t.value, p.powLimit)

\* expected timespan and clamp factor of the era of a previous node of
\* height h
Expected(h, p) ==
    IF h + 1 <= p.BCDHeight THEN p.nPowTargetTimespan ELSE 72 * p.nPowTargetSpacing

Factor(h, p) == IF h + 1 <= p.BCDHeight THEN 4 ELSE 2

Clamp(a, lo, hi) == IF a < lo THEN lo ELSE IF a > hi THEN hi ELSE a

ClampedSpan(actual, h, p) ==
    Clamp(actual, Expected(h, p) \div Factor(h, p), Expected(h, p) * Factor(h, p))

\* exact arithmetic on WIDTH + 4 bytes: no product of a 256-bit value and a
\* timespan below 2^31 overflows it
WIDE == WIDTH + 4

RECURSIVE WideMulBytes(_, _, _, _, _)
WideMulBytes(a, m, i, last, st) ==
    IF i > last THEN st
    ELSE CHOOSE r \in
           { WideMulBytes(a, m, i + 1, last, nx) :
               nx \in { <<((IF i <= WIDTH THEN a[i] ELSE 0) * m + st[1]) \div 256,
                          Append(st[2], ((IF i <= WIDTH THEN a[i] ELSE 0) * m + st[1]) % 256)>> } } : TRUE

WideMul(a, m) ==
    CHOOSE r \in
      { s4[2] :
        s4 \in { WideMulBytes(a, m, 3 * (WIDE \div 4) + 1, WIDE, s3) :
        s3 \in { WideMulBytes(a, m, 2 * (WIDE \div 4) + 1, 3 * (WIDE \div 4), s2) :
        s2 \in { WideMulBytes(a, m, (WIDE \div 4) + 1, 2 * (WIDE \div 4), s1) :
        s1 \in { WideMulBytes(a, m, 1, WIDE \div 4, <<0, <<>>>>) } } } } } : TRUE

RECURSIVE WideDivBytes(_, _, _, _, _)
WideDivBytes(a, d, i, last, st) ==
    IF i < last THEN st
    ELSE CHOOSE r \in
           { WideDivBytes(a, d, i - 1, last, nx) :
               nx \in { <<(st[1] * 256 + a[i]) % d,
                          [st[2] EXCEPT ![i] = (st[1] * 256 + a[i]) \div d]>> } } : TRUE

WideDiv(a, d) ==
    CHOOSE r \in
      { s4[2] :
        s4 \in { WideDivBytes(a, d, WIDE \div 4, 1, s3) :
        s3 \in { WideDivBytes(a, d, 2 * (WIDE \div 4), (WIDE \div 4) + 1, s2) :
        s2 \in { WideDivBytes(a, d, 3 * (WIDE \div 4), 2 * (WIDE \div 4) + 1, s1) :
        s1 \in { WideDivBytes(a, d, WIDE, 3 * (WIDE \div 4) + 1,
                              <<0, [j \in 1..WIDE |-> 0]>>) } } } } } : TRUE

\* min(floor(old * c / expected), lim) in unbounded integers
ExactRetarget(old, c, expected, lim) ==
    LET prod == WideMul(old, c)
        quot == WideDiv(prod, expected)
        low  == [i \in Idx |-> quot[i]]
    IN  IF (\E i \in (WIDTH + 1)..WIDE : quot[i] # 0) \/ Gt256(low, lim)
        THEN lim ELSE low

\* the walk of the min-difficulty rule that stops at the boundaries of the
\* active era
EraBoundaryAt(h, post, p) ==
    IF post THEN (h - p.BCDHeight) % 72 = 0
    ELSE h % (p.nPowTargetTimespan \div p.nPowTargetSpacing) = 0

EraWalk(ch, i, post, p) ==
    SetMax({j \in 1..i : \/ j = 1
                         \/ EraBoundaryAt(ch[j].nHeight, post, p)
                         \/ ch[j].nBits # GetCompact(p.powLimit)})

(* ---------------------------------------------------------------------- *)
(* Properties                                                              *)
(* ---------------------------------------------------------------------- *)

\* C1: with a previous node, get_next_work_required returns encode(pow_limit)
\* at candidate height fork_activation_height and encode(fork_initial_ceiling)
\* at fork_activation_height + 1, whatever the previous bits, the timestamps
\* and the network flags.
C1_ForkBoundary ==
    IsGnwr =>
        /\ CandidateHeight = params.BCDHeight =>
               call.res.ok /\ call.res.bits = EncLimit
        /\ CandidateHeight = params.BCDHeight + 1 =>
               call.res.ok /\ call.res.bits = EncCeiling

C1_Witness ==
    /\ IsGnwr
    /\ CandidateHeight = params.BCDHeight + 1
    /\ params.fPowAllowMinDifficultyBlocks
    /\ Last.nBits # EncCeiling
    /\ call.res.bits = EncCeiling

\* C2: called with no previous node (genesis), get_next_work_required
\* returns encode(pow_limit) as a normal result.
C2_GenesisReturnsLimit ==
    (call.op = "gnwr" /\ call.last = 0) =>
        call.res.ok /\ call.res.bits = EncLimit

\* C3: check_proof_of_work returns true if and only if bits decode to a
\* target T that is not negative, not overflowing, non-zero and at most
\* pow_limit and hash <= T; a hash equal to T is accepted, a hash equal to
\* T + 1 is rejected, invalid bits are rejected for every hash.
C3_CheckProofOfWork ==
    call.op = "cpow" =>
        LET T == SetCompact(call.bits).value
        IN  /\ call.res <=> (ValidTarget(call.bits, params) /\ Leq256(call.hash, T))
            /\ (ValidTarget(call.bits, params) /\ call.hash = T) => call.res
            /\ (call.hash = Inc256(T) /\ T # LowOnes(WIDTH)) => ~call.res
            /\ ~ValidTarget(call.bits, params) => ~call.res

C3_Witness ==
    /\ call.op = "cpow"
    /\ ValidTarget(call.bits, params)
    /\ call.hash = SetCompact(call.bits).value
    /\ call.res

\* C4: with no_retargeting false and previous bits decoding to old_target in
\* (0, pow_limit], calculate_next_work_required returns
\* encode(min(floor(old_target * c / expected), pow_limit)) in exact integers,
\* c being the actual timespan clamped into [expected / factor,
\* expected * factor].
C4_ExactRetarget ==
    (/\ call.op = "cnwr"
     /\ ~params.fPowNoRetargeting
     /\ ValidTarget(call.node.nBits, params)) =>
        LET c == ClampedSpan(call.node.nTime - call.first, call.node.nHeight, params)
        IN  call.res = GetCompact(ExactRetarget(SetCompact(call.node.nBits).value, c,
                                                Expected(call.node.nHeight, params),
                                                params.powLimit))

\* C5: with allow_min_difficulty_blocks false, at a candidate height that is
\* neither fork height nor a multiple of the era's interval,
\* get_next_work_required returns the previous node's bits.
C5_NonBoundaryReuse ==
    (IsGnwr /\ ~params.fPowAllowMinDifficultyBlocks /\ NonBoundary) =>
        call.res.ok /\ call.res.bits = Last.nBits

C5_Witness ==
    /\ IsGnwr /\ ~params.fPowAllowMinDifficultyBlocks /\ NonBoundary
    /\ PostFork
    /\ call.last > 1
    /\ chain[call.last - 1].nBits # Last.nBits
    /\ call.res.bits = Last.nBits

\* C6: with allow_min_difficulty_blocks true, off the retarget boundaries, a
\* candidate timestamp above prev.timestamp + 2 * target_spacing yields
\* encode(pow_limit); a gap of exactly 2 * target_spacing does not trigger
\* the rule.
C6_MinDifficultyRule ==
    (IsGnwr /\ params.fPowAllowMinDifficultyBlocks /\ NonBoundary) =>
        /\ call.res.ok
        /\ IF call.time > Last.nTime + 2 * params.nPowTargetSpacing
           THEN call.res.bits = EncLimit /\ call.res.branch = "mindiff"
           ELSE call.res.branch = "walk"

C6_Witness ==
    /\ IsGnwr /\ params.fPowAllowMinDifficultyBlocks /\ NonBoundary
    /\ call.time = Last.nTime + 2 * params.nPowTargetSpacing
    /\ call.res.bits # EncLimit

\* C7: with no_retargeting true, calculate_next_work_required returns the
\* previous node's bits unchanged, for every timespan, height and bits.
C7_NoRetargeting ==
    (call.op = "cnwr" /\ params.fPowNoRetargeting) => call.res = call.node.nBits

C7_Witness ==
    /\ call.op = "cnwr" /\ params.fPowNoRetargeting
    /\ ~ValidTarget(call.node.nBits, params)
    /\ call.node.nTime - call.first > 4 * params.nPowTargetTimespan
    /\ call.res = call.node.nBits

\* C8: with allow_min_difficulty_blocks true and no gap, off the retarget
\* boundaries, get_next_work_required returns the bits of the first node,
\* walking back from prev_node, that has no predecessor, or is at an
\* interval boundary of the active era, or whose bits differ from
\* encode(pow_limit).
C8_EraWalk ==
    (/\ IsGnwr /\ params.fPowAllowMinDifficultyBlocks /\ NonBoundary
     /\ call.time <= Last.nTime + 2 * params.nPowTargetSpacing) =>
        /\ call.res.ok
        /\ call.res.bits = chain[EraWalk(chain, call.last, PostFork, params)].nBits

\* C9: at a retarget boundary the window start prev.height - (interval - 1)
\* lies in 0..prev.height (and at or above the fork height in the fork era),
\* no assertion fails, and the calculator runs on the timestamps of the
\* previous node and of the ancestor at the window start, under the era the
\* scheduler selected.
C9_WindowStart ==
    (IsGnwr /\ Boundary) =>
        LET start == Last.nHeight - (EraInterval - 1)
        IN  /\ 0 <= start /\ start <= Last.nHeight
            /\ PostFork => start >= params.BCDHeight
            /\ call.res.ok /\ call.res.branch = "retarget"
            /\ call.res.nHeightFirst = start
            /\ call.res.nFirstBlockTime = chain[start + 1].nTime
            /\ CalcTimespan(Last.nHeight, params) =
                   (IF PostFork THEN 72 * params.nPowTargetSpacing
                    ELSE params.nPowTargetTimespan)
            /\ CalcLimit(Last.nHeight, params) = (IF PostFork THEN 2 ELSE 4)
            /\ call.res.bits =
                   CalculateNextWorkRequired(Last, chain[start + 1].nTime, params)

C9_Witness ==
    /\ IsGnwr /\ Boundary /\ PostFork
    /\ ~params.fPowNoRetargeting
    /\ call.res.branch = "retarget"
    /\ call.res.nHeightFirst >= params.BCDHeight
    /\ call.res.bits # Last.nBits

\* every node up to the previous node carries a valid target, and so does
\* the fork's initial ceiling
ValidHistory ==
    /\ \A b \in {chain[i].nBits : i \in 1..call.last} : ValidTarget(b, params)
    /\ ValidTarget(EncCeiling, params)
    /\ ValidTarget(EncLimit, params)

\* the new target of the calculator at the boundary of the call is zero
ZeroRetarget ==
    /\ Boundary
    /\ ~params.fPowNoRetargeting
    /\ LET first == chain[Last.nHeight - (EraInterval - 1) + 1].nTime
       IN  Retarget(Last.nBits, ClampedSpan(Last.nTime - first, Last.nHeight, params),
                    Expected(Last.nHeight, params), params) = Zero256

\* C10 as stated: on a chain of valid targets the value returned by
\* get_next_work_required decodes to a valid target, 0 < target <= pow_limit.
C10_AlwaysValid ==
    (IsGnwr /\ ValidHistory) =>
        call.res.ok /\ ValidTarget(call.res.bits, params)

\* C10, amended: on a chain of valid targets, with a valid fork ceiling, the
\* value returned decodes to a target that is not negative, not overflowing
\* and at most pow_limit; it is zero exactly when the call is a retarget
\* boundary at which the calculator's quotient is zero, and a valid target
\* otherwise.
C10_ValidOrZero ==
    (IsGnwr /\ ValidHistory) =>
        LET t == SetCompact(call.res.bits)
        IN  /\ call.res.ok
            /\ ~t.fNegative /\ ~t.fOverflow /\ Leq256(t.value, params.powLimit)
            /\ (t.value = Zero256) <=> ZeroRetarget
            /\ ~ZeroRetarget => ValidTarget(call.res.bits, params)

C10_Witness ==
    /\ IsGnwr /\ ValidHistory
    /\ ZeroRetarget
    /\ call.res.bits = 0

====
